---- MODULE Spec2Model ----
(***************************************************************************)
(* The class-list parser of classlist_parser/parser.py: main() from the    *)
(* detection of the term (line 242) over the walk of the pages of a roster *)
(* PDF (lines 244-304) to the output name and the grouping of the records  *)
(* (lines 306-320), with the regular expressions and string methods it     *)
(* applies computed character by character.  Strings are TLA+ strings; a   *)
(* page is the sequence of lines that text.split("\n") yields (one line at *)
(* least, none containing a newline).  Indices into a page are 0-based as  *)
(* in the source: line i of a page is lines[i + 1].                        *)
(***************************************************************************)
EXTENDS Integers, Sequences, FiniteSets, TLC

VARIABLES
    settings,       \* the dict load_settings() returned (parser.py:224)
    pc,             \* where main() stands: "open", "pages", "headers", "students",
                    \* "done", "group", "grouped", "error"
    first_page,     \* lines of pdf.pages[0] as line 179 read them, until line 245 reads
                    \* them again (<<>> before, after, and when the PDF has no page)
    term_text,      \* line 242
    out_name,       \* line 309
    grouped,        \* line 318: the dict as the sequence of its items, in insertion order
    gpos,           \* position of the for loop of line 319 in records
    page,           \* number of the page the for loop of line 244 is at (0: none yet)
    lines,          \* lines of that page (line 246)
    h,              \* position of the for loop of line 249 in lines
    idx,            \* cursor of the while loop of line 270
    current_class,  \* line 238
    records,        \* line 237
    origin,         \* history: origin[k] = <<page, idx>> of the line records[k] was made from
    carried,        \* history: current_class and last header verdict when the page was opened
    linesRead       \* history: number of lines of the pages opened so far

\* What the walk of the pages leaves alone.
output == <<term_text, out_name, grouped, gpos>>

vars == <<settings, pc, page, lines, h, idx, current_class, records, origin,
          carried, linesRead, first_page, output>>

-----------------------------------------------------------------------------
(* Bounds of the model. *)

\* Total number of lines of the document (over all its pages).
MaxDocLines == 3

\* Number of records the grouping is run on.
MaxRecords == 3

\* Number of lines of the first page the term is looked for in.
MaxTermLines == 2

-----------------------------------------------------------------------------
(* Characters and the string methods of Python the parser uses. *)

Digit == {"0", "1", "2", "3", "4", "5", "6", "7", "8", "9"}
Upper == {"A", "B", "C", "D", "E", "F", "G", "H", "I", "J", "K", "L", "M",
          "N", "O", "P", "Q", "R", "S", "T", "U", "V", "W", "X", "Y", "Z"}
Lower == {"a", "b", "c", "d", "e", "f", "g", "h", "i", "j", "k", "l", "m",
          "n", "o", "p", "q", "r", "s", "t", "u", "v", "w", "x", "y", "z"}
\* \w of the re module
WordCh == Digit \cup Upper \cup Lower \cup {"_"}
\* \s of the re module, and the whitespace of str.split() and str.strip()
Space == {" ", "\t"}

Ch(s, i) == SubSeq(s, i, i)

Min(S) == CHOOSE m \in S : \A n \in S : m <= n
Max(S) == CHOOSE m \in S : \A n \in S : m >= n

\* First position j >= i of s whose character is not in C (Len(s) + 1 if none):
\* where a greedy C* that starts at i stops.
SkipIn(s, i, C) ==
    LET stop == {j \in i..Len(s) : Ch(s, j) \notin C}
    IN  IF stop = {} THEN Max({i, Len(s) + 1}) ELSE Min(stop)

\* First position j >= i of s whose character is in C (Len(s) + 1 if none).
SkipTo(s, i, C) ==
    LET stop == {j \in i..Len(s) : Ch(s, j) \in C}
    IN  IF stop = {} THEN Max({i, Len(s) + 1}) ELSE Min(stop)

\* s[i..j] is made of characters of C only, and lies inside s.
AllIn(s, i, j, C) == j <= Len(s) /\ \A k \in i..j : Ch(s, k) \in C

\* str.strip()
Strip(s) ==
    LET keep == {j \in 1..Len(s) : Ch(s, j) \notin Space}
    IN  IF keep = {} THEN "" ELSE SubSeq(s, Min(keep), Max(keep))

\* sub in s
Contains(s, sub) ==
    \E i \in 1..(Len(s) - Len(sub) + 1) : SubSeq(s, i, i + Len(sub) - 1) = sub

\* str.split(): the whitespace-delimited tokens of s, in order.
RECURSIVE SplitFrom(_, _)
SplitFrom(s, i) ==
    LET a == SkipIn(s, i, Space)
        b == SkipTo(s, a, Space)
    IN  IF a > Len(s) THEN <<>> ELSE <<SubSeq(s, a, b - 1)>> \o SplitFrom(s, b)
Split(s) == SplitFrom(s, 1)

\* str.split(None, 1): the first token, and what follows the whitespace after it.
Split1(s) ==
    LET a == SkipIn(s, 1, Space)
        b == SkipTo(s, a, Space)
        c == SkipIn(s, b, Space)
    IN  IF a > Len(s) THEN <<>>
        ELSE IF c > Len(s) THEN <<SubSeq(s, a, b - 1)>>
        ELSE <<SubSeq(s, a, b - 1), SubSeq(s, c, Len(s))>>

\* str.split(','): the pieces of s between its commas, in order.
RECURSIVE SplitCommaFrom(_, _)
SplitCommaFrom(s, i) ==
    LET c == SkipTo(s, i, {","})
    IN  IF c > Len(s) THEN <<SubSeq(s, i, Len(s))>>
        ELSE <<SubSeq(s, i, c - 1)>> \o SplitCommaFrom(s, c + 1)
SplitComma(s) == SplitCommaFrom(s, 1)

-----------------------------------------------------------------------------
(* The two regular expressions of the walk. *)

NoMatch == [matched |-> FALSE]

\* re.match(r"\s*(\d{5})\s+(\w+)\s+(\d+[A-Z]?)\s+(\d)\s+(.*)", line).  The classes
\* \s, \d, \w and [A-Z] that follow one another are disjoint where it matters, so
\* every greedy repetition has one place to stop and backtracking finds nothing
\* the scan below misses.
course_match(line) ==
    LET n  == Len(line)
        a  == SkipIn(line, 1, Space)                 \* \s*
        b  == a + 5                                  \* (\d{5}) is line[a..b-1]
        c  == SkipIn(line, b, Space)                 \* \s+
        d  == SkipIn(line, c, WordCh)                \* (\w+) is line[c..d-1]
        e  == SkipIn(line, d, Space)                 \* \s+
        f  == SkipIn(line, e, Digit)                 \* \d+
        g  == IF f <= n /\ Ch(line, f) \in Upper THEN f + 1 ELSE f   \* [A-Z]?
        hh == SkipIn(line, g, Space)                 \* \s+, then (\d) is line[hh]
        j  == SkipIn(line, hh + 1, Space)            \* \s+, then (.*) is line[j..n]
    IN  IF /\ AllIn(line, a, b - 1, Digit)
           /\ c > b /\ d > c /\ e > d /\ f > e /\ hh > g
           /\ hh <= n /\ Ch(line, hh) \in Digit
           /\ j > hh + 1
        THEN [matched |-> TRUE,
              g1 |-> SubSeq(line, a, b - 1),
              g2 |-> SubSeq(line, c, d - 1),
              g3 |-> SubSeq(line, e, g - 1),
              g4 |-> Ch(line, hh),
              g5 |-> SubSeq(line, j, n)]
        ELSE NoMatch

\* Number of digits the identifier pattern asks for after its "G".
GnumDigits == 8

\* re.search(r"(G\d{8})", line): the leftmost match.
gnum_match(line) ==
    LET at == {i \in 1..Len(line) :
                  Ch(line, i) = "G" /\ AllIn(line, i + 1, i + GnumDigits, Digit)}
    IN  IF at = {} THEN NoMatch
        ELSE [matched |-> TRUE, start |-> Min(at),
              g1 |-> SubSeq(line, Min(at), Min(at) + GnumDigits)]

-----------------------------------------------------------------------------
(* Settings. *)

\* None, and a value that is not None.
None == [isNone |-> TRUE]
Some(v) == [isNone |-> FALSE, val |-> v]

\* DEFAULT_SETTINGS["allowed_courses"] and DEFAULT_SETTINGS["email_domain"]
DefaultAllowed == {"170", "221", "223", "240", "242", "244", "246", "248", "252",
                   "254", "260", "265", "266", "267", "270", "280A"}
DefaultDomain == "@pcc.edu"

\* DEFAULT_SETTINGS["output_name_prefix"]
DefaultPrefix == "GEO_Class_Lists"

\* What load_settings() can return: the defaults, with the keys a settings.json
\* overrides ("allowed_courses": null, "email_domain": "").
WalkSettings ==
    [department_prefix : {None}, allowed_courses : {Some(DefaultAllowed), None},
     email_domain : {DefaultDomain, ""}, output_name_prefix : {DefaultPrefix}]

-----------------------------------------------------------------------------
(* The class context (lines 249-266). *)

\* current_class = {}
EmptyDict == <<>>

\* Mutant: every dict counts as true.
IsActiveAlways(cc) == TRUE

\* The truth value of a dict.
IsActive(cc) == DOMAIN cc # {}

\* Mutant: the section is taken for the course number.
ClassOfBySection(m) ==
    ("CRN" :> m.g1) @@ ("Subject" :> m.g2) @@ ("Course Number" :> m.g4)
        @@ ("Section" :> m.g4) @@ ("Course Name" :> Strip(m.g5))

\* The dict of lines 260-266.
ClassOf(m) ==
    ("CRN" :> m.g1) @@ ("Subject" :> m.g2) @@ ("Course Number" :> m.g3)
        @@ ("Section" :> m.g4) @@ ("Course Name" :> Strip(m.g5))

\* allowed is not None and course_number not in allowed (line 256)
Rejected(course_number, allowed) ==
    ~allowed.isNone /\ course_number \notin allowed.val

\* Mutant: a header of another subject than settings["department_prefix"] is
\* passed over.
HeaderUpdateOfDepartment(cc, line, allowed) ==
    LET m == course_match(line)
    IN  IF ~m.matched THEN cc
        ELSE IF ~settings.department_prefix.isNone /\ m.g2 # settings.department_prefix.val
             THEN cc
        ELSE IF Rejected(m.g3, allowed) THEN EmptyDict
        ELSE ClassOf(m)

\* One iteration of the loop of line 249: current_class after `line`.
HeaderUpdate(cc, line, allowed) ==
    LET m == course_match(line)
    IN  IF ~m.matched THEN cc
        ELSE IF Rejected(m.g3, allowed) THEN EmptyDict
        ELSE ClassOf(m)

\* Mutant: the class is reset for every page.
CarryOverReset(cc) == EmptyDict

\* current_class when the next page is opened: it is set before the page loop
\* (line 238) and nothing in lines 244-248 touches it.
CarryOver(cc) == cc

\* Mutant: the header loop stops after one line.
AfterHeaderOneLine(hNext, ls) == "students"

\* Where main() stands after the header loop has taken the line before
\* position hNext: the loop runs over every line of the page.
AfterHeader(hNext, ls) == IF hNext < Len(ls) THEN "headers" ELSE "students"

-----------------------------------------------------------------------------
(* The student rows (lines 268-304). *)

\* if gnum_match and current_class (line 273)
TakesRow(line, cc) == gnum_match(line).matched /\ IsActive(cc)

\* Mutant: the names are not stripped.
ParseNameUntrimmed(line, gm) ==
    LET name_part  == SubSeq(line, 1, gm.start - 1)
        toks       == Split1(name_part)
        last_first == SplitComma(toks[2])
    IN  IF Len(toks) < 2 \/ Len(last_first) < 2
        THEN [last |-> "", first |-> ""]
        ELSE [last |-> last_first[1], first |-> last_first[2]]

\* Lines 274-281: the names before the G-number; any exception gives "", "".
ParseName(line, gm) ==
    LET name_part  == SubSeq(line, 1, gm.start - 1)     \* line.split(g)[0]
        toks       == Split1(name_part)
        last_first == SplitComma(toks[2])
    IN  IF Len(toks) < 2 \/ Len(last_first) < 2
        THEN [last |-> "", first |-> ""]
        ELSE [last |-> Strip(last_first[1]), first |-> Strip(last_first[2])]

\* Mutant: the whole line is taken as the email, not its first token.
EmailLookupWholeLine(ls, i, domain) ==
    IF i + 1 < Len(ls)
    THEN LET email_line == Strip(ls[i + 2])
         IN  IF Contains(email_line, domain)
             THEN IF Split(email_line) = <<>>
                  THEN [raised |-> TRUE]
                  ELSE [raised |-> FALSE, email |-> email_line]
             ELSE [raised |-> FALSE, email |-> ""]
    ELSE [raised |-> FALSE, email |-> ""]

\* Lines 286-290: the email on the line after line i of ls.  split()[0] raises
\* IndexError when the stripped line has no token.
EmailLookup(ls, i, domain) ==
    IF i + 1 < Len(ls)
    THEN LET email_line == Strip(ls[i + 2])
         IN  IF Contains(email_line, domain)
             THEN IF Split(email_line) = <<>>
                  THEN [raised |-> TRUE]
                  ELSE [raised |-> FALSE, email |-> Split(email_line)[1]]
             ELSE [raised |-> FALSE, email |-> ""]
    ELSE [raised |-> FALSE, email |-> ""]

\* cc.get(k), and f"{cc.get(k)}"
Get(cc, k) == IF k \in DOMAIN cc THEN cc[k] ELSE None
GetStr(cc, k) == IF k \in DOMAIN cc THEN cc[k] ELSE "None"

\* Mutant: the record takes the class of the nearest header line at or above
\* its row (cc when there is none), as a single loop over the page would.
MakeRecordOfHeaderAbove(name, g_number, email, cc) ==
    LET above == {i \in 1..(idx + 1) : course_match(lines[i]).matched}
        near  == IF above = {} THEN cc ELSE ClassOf(course_match(lines[Max(above)]))
    IN  ("First Name" :> name.first) @@ ("Last Name" :> name.last)
            @@ ("G Number" :> g_number) @@ ("PCC email address" :> email)
            @@ ("Non-PCC email" :> "")
            @@ ("Class" :> GetStr(near, "Subject") \o " " \o GetStr(near, "Course Number"))
            @@ ("CRN" :> Get(near, "CRN"))

\* The dict of lines 292-300.
MakeRecord(name, g_number, email, cc) ==
    ("First Name" :> name.first) @@ ("Last Name" :> name.last)
        @@ ("G Number" :> g_number) @@ ("PCC email address" :> email)
        @@ ("Non-PCC email" :> "")
        @@ ("Class" :> GetStr(cc, "Subject") \o " " \o GetStr(cc, "Course Number"))
        @@ ("CRN" :> Get(cc, "CRN"))

\* Mutant: the record is put in front.
AccumulateFront(recs, r) == <<r>> \o recs

\* records.append(...) (line 292)
Accumulate(recs, r) == Append(recs, r)

\* Mutant: the line after a recorded row is not skipped.
AdvanceRecordOne(i) == i + 1

\* idx += 2 (line 302)
AdvanceRecord(i) == i + 2

\* Mutant: a row that gives no record is skipped with the line after it.
AdvanceSkipTwo(i) == i + 2

\* idx += 1 (line 304)
AdvanceSkip(i) == i + 1

\* Mutant: the student loop never ends.
AfterRowOnAndOn(i, ls) == "students"

\* Where main() stands when the cursor is at i: the while loop of line 270.
AfterRow(i, ls) == IF i < Len(ls) THEN "students" ELSE "pages"

-----------------------------------------------------------------------------
(* The term (lines 84-85, 102-113, 166-194). *)

\* \s of the re module and the whitespace of str.strip() in a text of several lines
TextSpace == Space \cup {"\n"}

\* "\n".join(ls): the text of a page, of which ls is the split("\n")
RECURSIVE JoinLines(_)
JoinLines(ls) ==
    IF ls = <<>> THEN ""
    ELSE IF Len(ls) = 1 THEN ls[1]
    ELSE ls[1] \o "\n" \o JoinLines(Tail(ls))

UpperSeq == "ABCDEFGHIJKLMNOPQRSTUVWXYZ"
LowerSeq == "abcdefghijklmnopqrstuvwxyz"

\* str.lower() and str.upper() of one character
LowerCh(c) ==
    IF c \in Upper THEN Ch(LowerSeq, CHOOSE i \in 1..Len(UpperSeq) : Ch(UpperSeq, i) = c) ELSE c
UpperCh(c) ==
    IF c \in Lower THEN Ch(UpperSeq, CHOOSE i \in 1..Len(LowerSeq) : Ch(LowerSeq, i) = c) ELSE c

\* str.lower(): how re.I compares
RECURSIVE LowerStr(_)
LowerStr(s) == IF s = "" THEN "" ELSE LowerCh(Ch(s, 1)) \o LowerStr(Tail(s))

\* str.title() of a word made of letters
Title(s) == IF s = "" THEN "" ELSE UpperCh(Ch(s, 1)) \o LowerStr(Tail(s))

\* \b between s[i - 1] and s[i]
WordBoundary(s, i) ==
    (i > 1 /\ Ch(s, i - 1) \in WordCh) # (i <= Len(s) /\ Ch(s, i) \in WordCh)

\* The alternatives of _TERM_TEXT_RE
Seasons == <<"Spring", "Summer", "Fall", "Winter">>

\* _TERM_TEXT_RE matched at position i of s: \b(Spring|Summer|Fall|Winter)\s+(20\d{2})\b
\* under re.I.  No alternative is a prefix of another, so one at most fits at i.
TermTextAt(s, i) ==
    LET fits == {k \in 1..Len(Seasons) :
                    /\ i + Len(Seasons[k]) - 1 <= Len(s)
                    /\ LowerStr(SubSeq(s, i, i + Len(Seasons[k]) - 1)) = LowerStr(Seasons[k])}
    IN  IF ~WordBoundary(s, i) \/ fits = {} THEN NoMatch
        ELSE LET k == CHOOSE k \in fits : TRUE
                 a == i + Len(Seasons[k])
                 b == SkipIn(s, a, TextSpace)
             IN  IF /\ b > a
                    /\ AllIn(s, b, b + 3, Digit)
                    /\ SubSeq(s, b, b + 1) = "20"
                    /\ WordBoundary(s, b + 4)
                 THEN [matched |-> TRUE, g1 |-> SubSeq(s, i, a - 1), g2 |-> SubSeq(s, b, b + 3)]
                 ELSE NoMatch

\* _TERM_TEXT_RE.search(s): the leftmost match
term_text_search(s) ==
    LET at == {i \in 1..Len(s) : TermTextAt(s, i).matched}
    IN  IF at = {} THEN NoMatch ELSE TermTextAt(s, Min(at))

\* _TERM_CODE_RE matches at position i of s: \b(20\d{2}0[1-4])\b
TermCodeAt(s, i) ==
    /\ WordBoundary(s, i)
    /\ AllIn(s, i, i + 5, Digit)
    /\ SubSeq(s, i, i + 1) = "20"
    /\ Ch(s, i + 4) = "0"
    /\ Ch(s, i + 5) \in {"1", "2", "3", "4"}
    /\ WordBoundary(s, i + 6)

\* season_map.get(int(d), '') (line 111-113)
SeasonOf(d) ==
    CASE d = "1" -> "Winter"
      [] d = "2" -> "Spring"
      [] d = "3" -> "Summer"
      [] d = "4" -> "Fall"
      [] OTHER   -> ""

\* str.strip() of a text
StripText(s) ==
    LET keep == {j \in 1..Len(s) : Ch(s, j) \notin TextSpace}
    IN  IF keep = {} THEN "" ELSE SubSeq(s, Min(keep), Max(keep))

\* _term_from_code(code)
term_from_code(code) ==
    StripText(SeasonOf(Ch(code, Len(code))) \o " " \o SubSeq(code, 1, 4))

\* Mutant: the codes are looked for before the phrase.
detect_term_code_first(header) ==
    LET m     == term_text_search(header)
        codes == {i \in 1..Len(header) :
                     TermCodeAt(header, i) /\ term_from_code(SubSeq(header, i, i + 5)) # ""}
    IN  IF codes # {} THEN term_from_code(SubSeq(header, Min(codes), Min(codes) + 5))
        ELSE IF m.matched THEN Title(m.g1) \o " " \o m.g2
        ELSE ""

\* _detect_term_from_pdf, on the text of the first page ("" when there is none)
detect_term(header) ==
    LET m     == term_text_search(header)
        codes == {i \in 1..Len(header) :
                     TermCodeAt(header, i) /\ term_from_code(SubSeq(header, i, i + 5)) # ""}
    IN  IF m.matched THEN Title(m.g1) \o " " \o m.g2
        ELSE IF codes # {} THEN term_from_code(SubSeq(header, Min(codes), Min(codes) + 5))
        ELSE ""

-----------------------------------------------------------------------------
(* The output name (lines 197-214, 306-309). *)

\* [A-Za-z0-9 _\-]
NameCh == Upper \cup Lower \cup Digit \cup {" ", "_", "-"}

\* re.sub(r'[^A-Za-z0-9 _\-]', '', s)
RECURSIVE Keep(_, _)
Keep(s, C) ==
    IF s = "" THEN ""
    ELSE (IF Ch(s, 1) \in C THEN Ch(s, 1) ELSE "") \o Keep(Tail(s), C)

\* Mutant: every whitespace character becomes a space of its own.
RECURSIVE CollapseEach(_)
CollapseEach(s) ==
    IF s = "" THEN ""
    ELSE (IF Ch(s, 1) \in TextSpace THEN " " ELSE Ch(s, 1)) \o CollapseEach(Tail(s))

\* re.sub(r'\s+', ' ', s)
RECURSIVE Collapse(_)
Collapse(s) ==
    IF s = "" THEN ""
    ELSE IF Ch(s, 1) \in TextSpace
         THEN " " \o Collapse(SubSeq(s, SkipIn(s, 1, TextSpace), Len(s)))
         ELSE Ch(s, 1) \o Collapse(Tail(s))

\* _safe_filename(s)
safe_filename(s) == StripText(Collapse(Keep(StripText(s), NameCh)))

\* stem (line 308)
Stem(prefix, term) == IF term # "" THEN prefix \o "_" \o term ELSE prefix

-----------------------------------------------------------------------------
(* The grouping (lines 317-320). *)

\* Mutant: the key is the class label alone.
GroupKeyClassOnly(rec) == rec["Class"]

\* f"{rec['Class']}_{rec['CRN']}"
GroupKey(rec) == rec["Class"] \o "_" \o rec["CRN"]

\* grouped[key].append(rec) on a defaultdict(list): a new key goes last.
GroupAdd(gr, key, rec) ==
    IF \E i \in 1..Len(gr) : gr[i].key = key
    THEN [i \in 1..Len(gr) |->
             IF gr[i].key = key THEN [gr[i] EXCEPT !.recs = Append(@, rec)] ELSE gr[i]]
    ELSE Append(gr, [key |-> key, recs |-> <<rec>>])

\* Where main() stands when the loop of line 319 is at position i.
AfterGroup(i, recs) == IF i < Len(recs) THEN "group" ELSE "grouped"

-----------------------------------------------------------------------------
(* The document: what page.extract_text() returns, page after page. *)

WalkPool ==
    {"12345 GEO 170 1 Intro to Geography",   \* a header the default allow-list accepts
     "54321 MTH 111 2 Algebra",              \* a header it rejects
     "22222 GEO 221 1 G87654321",            \* a header whose title holds a G-number
     "1 Doe, Jane G12345678",                \* a student row
     "jdoe@pcc.edu",                         \* an email line
     ""}                                     \* an empty line

\* The pages of n lines.
PagesOf(pool, n) == [1..n -> pool]

\* Verdict of the last header line of ls, or `before` when ls has none.
LastVerdict(ls, before, allowed) ==
    LET hs == {i \in 1..Len(ls) : course_match(ls[i]).matched}
    IN  IF hs = {} THEN before
        ELSE IF Rejected(course_match(ls[Max(hs)]).g3, allowed)
             THEN "rejected" ELSE "accepted"

-----------------------------------------------------------------------------
(* The walk. *)

\* main() up to the with statement of line 240, whatever settings were loaded.
Begin(loaded) ==
    /\ settings \in loaded
    /\ pc = "open"
    /\ first_page = <<>>
    /\ term_text = ""
    /\ out_name = ""
    /\ grouped = <<>>
    /\ gpos = 0
    /\ page = 0
    /\ lines = <<>>
    /\ h = 0
    /\ idx = 0
    /\ current_class = EmptyDict
    /\ records = <<>>
    /\ origin = <<>>
    /\ carried = [ctx |-> EmptyDict, hdr |-> "none"]
    /\ linesRead = 0

Init == Begin(WalkSettings)

\* The pages of at most n lines.
PagesUpTo(pool, n) == UNION {PagesOf(pool, k) : k \in 1..n}

\* term_text = _detect_term_from_pdf(pdf) (line 242) on a PDF whose first page is
\* one of firsts; <<>> stands for a PDF without pages (pdf.pages[0] raises, line 180).
OpenPdf(firsts) ==
    /\ pc = "open"
    /\ \E fp \in firsts :
          /\ first_page' = fp
          /\ term_text' = detect_term(JoinLines(fp))
    /\ pc' = "pages"
    /\ UNCHANGED <<settings, page, lines, h, idx, current_class, records, origin,
                   carried, linesRead, out_name, grouped, gpos>>

DetectTerm == OpenPdf({<<>>} \cup PagesUpTo(WalkPool, MaxDocLines))

\* for page in pdf.pages: the next page, one of texts, split into its lines
\* (lines 244-246).
TurnPage(texts) ==
    /\ pc = "pages"
    /\ \E text \in texts :
          /\ lines' = text
          /\ linesRead' = linesRead + Len(text)
    /\ page' = page + 1
    /\ h' = 0
    /\ pc' = "headers"
    /\ current_class' = CarryOver(current_class)
    /\ carried' = [ctx |-> current_class',
                   hdr |-> LastVerdict(lines, carried.hdr, settings.allowed_courses)]
    /\ UNCHANGED <<settings, idx, records, origin, output>>

\* The first page is the one line 179 read; a later one is one of texts.
ReadPage(texts) ==
    IF page = 0
    THEN /\ first_page # <<>>
         /\ TurnPage({first_page})
         /\ first_page' = <<>>
    ELSE /\ TurnPage(texts)
         /\ UNCHANGED first_page

NextPage == ReadPage(PagesUpTo(WalkPool, MaxDocLines - linesRead))

\* pdf.pages is exhausted: the with block of line 240 is left.
EndPages ==
    /\ pc = "pages"
    /\ page = 0 => first_page = <<>>
    /\ pc' = "done"
    /\ UNCHANGED <<settings, page, lines, h, idx, current_class, records, origin,
                   carried, linesRead, first_page, output>>

\* One line of the header loop (lines 249-266); after the last one the cursor
\* of the student loop is set (line 269).
HeaderLine ==
    /\ pc = "headers"
    /\ h < Len(lines)
    /\ current_class' = HeaderUpdate(current_class, lines[h + 1], settings.allowed_courses)
    /\ h' = h + 1
    /\ pc' = AfterHeader(h + 1, lines)
    /\ idx' = 0
    /\ UNCHANGED <<settings, page, lines, records, origin, carried, linesRead,
                   first_page, output>>

\* A row with a G-number under an active class: a record (lines 273-302).
StudentRecord ==
    /\ pc = "students"
    /\ idx < Len(lines)
    /\ LET line  == lines[idx + 1]
           gm    == gnum_match(line)
           found == EmailLookup(lines, idx, settings.email_domain)
       IN  /\ TakesRow(line, current_class)
           /\ ~found.raised
           /\ records' = Accumulate(records,
                  MakeRecord(ParseName(line, gm), gm.g1, found.email, current_class))
           /\ origin' = Append(origin, <<page, idx>>)
    /\ idx' = AdvanceRecord(idx)
    /\ pc' = AfterRow(idx', lines)
    /\ UNCHANGED <<settings, page, lines, h, current_class, carried, linesRead,
                   first_page, output>>

\* The same row when line 290 raises: the exception leaves main() and reaches
\* the handler of line 344.
StudentRaise ==
    /\ pc = "students"
    /\ idx < Len(lines)
    /\ TakesRow(lines[idx + 1], current_class)
    /\ EmailLookup(lines, idx, settings.email_domain).raised
    /\ pc' = "error"
    /\ UNCHANGED <<settings, page, lines, h, idx, current_class, records, origin,
                   carried, linesRead, first_page, output>>

\* Any other row (line 304).
StudentSkip ==
    /\ pc = "students"
    /\ idx < Len(lines)
    /\ ~TakesRow(lines[idx + 1], current_class)
    /\ idx' = AdvanceSkip(idx)
    /\ pc' = AfterRow(idx', lines)
    /\ UNCHANGED <<settings, page, lines, h, current_class, records, origin,
                   carried, linesRead, first_page, output>>

\* The walk itself: what lines 244-304 leave in the state.
walk == <<settings, page, lines, h, idx, current_class, records, origin, carried,
          linesRead, first_page>>

\* The output name (lines 307-309); the loop of line 319 is entered.
BuildName ==
    /\ pc = "done"
    /\ out_name' = safe_filename(Stem(settings.output_name_prefix, term_text)) \o ".xlsx"
    /\ grouped' = <<>>
    /\ gpos' = 0
    /\ pc' = AfterGroup(0, records)
    /\ UNCHANGED <<walk, term_text>>

\* One record of the loop of lines 319-320.
GroupRecord ==
    /\ pc = "group"
    /\ gpos < Len(records)
    /\ grouped' = GroupAdd(grouped, GroupKey(records[gpos + 1]), records[gpos + 1])
    /\ gpos' = gpos + 1
    /\ pc' = AfterGroup(gpos + 1, records)
    /\ UNCHANGED <<walk, term_text, out_name>>

Next ==
    \/ DetectTerm
    \/ NextPage
    \/ EndPages
    \/ HeaderLine
    \/ StudentRecord
    \/ StudentRaise
    \/ StudentSkip
    \/ BuildName
    \/ GroupRecord

Spec == Init /\ [][Next]_vars

-----------------------------------------------------------------------------
(* The two-page roster of the end-to-end scenario, under the default        *)
(* settings: its first two pages are fixed up to the last line of page 2.   *)

ScenarioSettings ==
    [department_prefix : {None}, allowed_courses : {Some(DefaultAllowed)},
     email_domain : {DefaultDomain}, output_name_prefix : {DefaultPrefix}]

ScenarioFirst ==
    <<"12345 GEO 170 1 Intro to Geography", "1 Doe, Jane G12345678", "jdoe@pcc.edu">>

\* Last lines of page 2: no email of the domain, and no class header.
ScenarioThird ==
    {"", "   ", "Total students: 1", "jane@example.org", "3 Roe, Ann G11111111",
     "Page 2 of 2", "G87654321", "jsmith", "Smith, John", "@", "pcc.edu",
     "jsmith@pcc", "Advanced Geo", "54321", "GEO 221", "Fall 2025"}

ScenarioSecond ==
    {<<"54321 GEO 221 2 Advanced Geo", "2 Smith, John G87654321", third>> :
        third \in ScenarioThird}

InitScenario == Begin(ScenarioSettings)

ScenarioOpen == OpenPdf({ScenarioFirst})

ScenarioPage == ReadPage(IF page = 1 THEN ScenarioSecond ELSE {})

\* The PDF has two pages.
ScenarioEnd == page = 2 /\ EndPages

\* Line 290 cannot raise under the default domain: a line that contains
\* "@pcc.edu" has a first token.
NextScenario ==
    \/ ScenarioOpen
    \/ ScenarioPage
    \/ ScenarioEnd
    \/ HeaderLine
    \/ StudentRecord
    \/ StudentSkip
    \/ BuildName
    \/ GroupRecord

SpecScenario == InitScenario /\ [][NextScenario]_vars

-----------------------------------------------------------------------------
(* The output name and the grouping alone (lines 306-320), on the records   *)
(* a walk can leave: rows of two students under three classes, of which two *)
(* share the label and two share the CRN.                                   *)

GroupClasses ==
    {ClassOf(course_match(hd)) : hd \in {"12345 GEO 170 1 Intro to Geography",
                                          "11111 GEO 170 2 Intro to Geography",
                                          "12345 GEO 221 1 Advanced Geo"}}

GroupRecords ==
    {MakeRecord(ParseName(row, gnum_match(row)), gnum_match(row).g1, "", cc) :
        row \in {"1 Doe, Jane G12345678", "2 Smith, John G87654321"}, cc \in GroupClasses}

\* The with block of line 240 is left; each record came from a page of its own.
InitGroup ==
    /\ settings \in ScenarioSettings
    /\ pc = "done"
    /\ \E n \in 0..MaxRecords :
          /\ records \in [1..n -> GroupRecords]
          /\ origin = [k \in 1..n |-> <<k, 1>>]
          /\ page = n
          /\ linesRead = 2 * n
    /\ lines = IF records = <<>> THEN <<>> ELSE <<"", "">>
    /\ h = Len(lines)
    /\ idx = Len(lines)
    /\ current_class = EmptyDict
    /\ carried = [ctx |-> EmptyDict, hdr |-> "none"]
    /\ first_page = <<>>
    /\ term_text = ""
    /\ out_name = ""
    /\ grouped = <<>>
    /\ gpos = 0

NextGroup ==
    \/ BuildName
    \/ GroupRecord

SpecGroup == InitGroup /\ [][NextGroup]_vars

-----------------------------------------------------------------------------
(* The detection of the term alone (line 242), on first pages of roster     *)
(* headings, phrases and codes.                                             *)

TermPool ==
    {"Fall 2025",
     "SPRING\t2024 roster",
     "Summer",
     "2025",
     "Term: 202503",
     "202513",
     "202505 202501",
     "Fall 1999",
     "x202502",
     "Falls 2025",
     "Class List",
     "Winter 20261"}

InitTerm == Begin(ScenarioSettings)

TermOpen == OpenPdf({<<>>} \cup PagesUpTo(TermPool, MaxTermLines))

SpecTerm == InitTerm /\ [][TermOpen]_vars

-----------------------------------------------------------------------------
(* main() when settings.json sets department_prefix. *)

DeptSettings ==
    [department_prefix : {None, Some("GEO")}, allowed_courses : {Some(DefaultAllowed), None},
     email_domain : {DefaultDomain, ""}, output_name_prefix : {DefaultPrefix}]

InitDept == Begin(DeptSettings)

SpecDept == InitDept /\ [][Next]_vars

-----------------------------------------------------------------------------
(* The output name alone (lines 306-309), for the prefixes a settings.json  *)
(* can set and the terms the detection can return; no record was made.      *)

NamePrefixes ==
    {DefaultPrefix,
     "GEO_Class_Lists_Fall 2025!!",
     " My  Lists\t(v2) ",
     "",
     "  ",
     "MTH-Rosters",
     "a/b\\c:d",
     "Class Lists.",
     "WR 121 & 122",
     "Rosters (draft)  final",
     "Geo\nLists",
     "__--__"}

NameTerms == {"", "Fall 2025", "Summer 2025", "Winter 2026", "Spring 2024"}

NameSettings ==
    [department_prefix : {None}, allowed_courses : {Some(DefaultAllowed)},
     email_domain : {DefaultDomain}, output_name_prefix : NamePrefixes]

\* The with block of line 240 is left, on a PDF of one empty page.
InitName ==
    /\ settings \in NameSettings
    /\ term_text \in NameTerms
    /\ pc = "done"
    /\ first_page = <<>>
    /\ out_name = ""
    /\ grouped = <<>>
    /\ gpos = 0
    /\ page = 1
    /\ lines = <<"">>
    /\ h = 1
    /\ idx = 1
    /\ current_class = EmptyDict
    /\ records = <<>>
    /\ origin = <<>>
    /\ carried = [ctx |-> EmptyDict, hdr |-> "none"]
    /\ linesRead = 1

SpecName == InitName /\ [][BuildName]_vars

-----------------------------------------------------------------------------
(* The student rows alone: the loop of lines 269-304 over one page of one   *)
(* or two lines, entered with the class the header loop left.               *)

\* settings["email_domain"] as a settings.json can set it.
ExtractDomains == {DefaultDomain, "", "@pcc.edu ", " "}

ExtractSettings ==
    [department_prefix : {None}, allowed_courses : {Some(DefaultAllowed)},
     email_domain : ExtractDomains, output_name_prefix : {DefaultPrefix}]

\* The line under the cursor.
RowPool ==
    {"1 Doe, Jane G12345678",
     "1 Doe, Jane, Jr G12345678",
     "1 Doe Jane G12345678",
     "  7\tO_Neil ,  Pat  G12345678 x",
     "Doe, Jane G12345678",
     "1 ,G12345678",
     "1 G12345678",
     "G12345678",
     "Some other text"}

\* The line after it.
FollowPool ==
    {"jdoe@pcc.edu",
     "  jdoe@pcc.edu  extra text",
     "jdoe@pcc.edu ",
     "jane@example.org",
     "2 Smith, John G87654321",
     "   ",
     ""}

ExtractPages ==
    {<<r>> : r \in RowPool} \cup {<<r, f>> : r \in RowPool, f \in FollowPool}

\* current_class after the header loop has run over ls[from..].
RECURSIVE HeaderPass(_, _, _, _)
HeaderPass(cc, ls, from, allowed) ==
    IF from > Len(ls) THEN cc
    ELSE HeaderPass(HeaderUpdate(cc, ls[from], allowed), ls, from + 1, allowed)

\* The second page of a document whose first page was one header line, or one
\* line that is no header; the header loop of the second page is over.
InitExtract ==
    /\ settings \in ExtractSettings
    /\ \E one \in {"12345 GEO 170 1 Intro to Geography", "Class List"} :
          /\ carried = [ctx |-> HeaderPass(EmptyDict, <<one>>, 1, settings.allowed_courses),
                        hdr |-> LastVerdict(<<one>>, "none", settings.allowed_courses)]
    /\ lines \in ExtractPages
    /\ current_class = HeaderPass(carried.ctx, lines, 1, settings.allowed_courses)
    /\ pc = "students"
    /\ page = 2
    /\ h = Len(lines)
    /\ idx = 0
    /\ records = <<>>
    /\ origin = <<>>
    /\ linesRead = 1 + Len(lines)
    /\ first_page = <<>>
    /\ term_text = ""
    /\ out_name = ""
    /\ grouped = <<>>
    /\ gpos = 0

NextExtract ==
    \/ StudentRecord
    \/ StudentRaise
    \/ StudentSkip

SpecExtract == InitExtract /\ [][NextExtract]_vars

-----------------------------------------------------------------------------
(* The claims. *)

Last(seq) == seq[Len(seq)]

\* cc is a class, not the empty dict.
NonEmpty(cc) == cc # EmptyDict

\* A step appended exactly one record.
Appended == Len(records') = Len(records) + 1 /\ SubSeq(records', 1, Len(records)) = records

\* The cursor is on a line that holds a G-number.
AtGnumLine == pc = "students" /\ idx < Len(lines) /\ gnum_match(lines[idx + 1]).matched

\* Positions (1-based) of the header lines of ls.
HeaderLines(ls) == {i \in 1..Len(ls) : course_match(ls[i]).matched}

\* C1: a record is appended only while a class is active, and its Class and
\* CRN are the subject + course number and the crn of the class active then.
C1_RecordCarriesActiveClass ==
    [][records' # records =>
          /\ NonEmpty(current_class)
          /\ Appended
          /\ Last(records')["Class"] =
                 current_class["Subject"] \o " " \o current_class["Course Number"]
          /\ Last(records')["CRN"] = current_class["CRN"]]_vars

\* A record exists, made under an accepted header.
C1_Witness ==
    /\ records # <<>>
    /\ NonEmpty(current_class)
    /\ Last(records)["CRN"] = current_class["CRN"]

\* C2: a header the allow-list rejects clears the class, and no G-number line
\* that follows it in document order gives a record before the next accepted
\* header (a row that is itself an accepted header line counts as after it).
C2_DroppedAfterRejectedHeader ==
    [][/\ (/\ pc = "headers" /\ h < Len(lines)
           /\ course_match(lines[h + 1]).matched
           /\ Rejected(course_match(lines[h + 1]).g3, settings.allowed_courses))
          => current_class' = EmptyDict
       /\ records' # records
          => LastVerdict(SubSeq(lines, 1, idx + 1), carried.hdr, settings.allowed_courses)
                 # "rejected"]_vars

\* The class the page's header lines leave, by the last of them alone.
ClassOfPage(ls, before, allowed) ==
    IF HeaderLines(ls) = {} THEN before
    ELSE LET m == course_match(ls[Max(HeaderLines(ls))])
         IN  IF ~allowed.isNone /\ m.g3 \notin allowed.val THEN EmptyDict ELSE ClassOf(m)

\* C3: no line of a page is taken as a student row before all its header lines
\* are applied; in the student loop the class is the one the page's last
\* header line leaves (the one carried in when it has none), and every record
\* of the page carries it, header lines after the row included.
C3_HeadersBeforeStudents ==
    /\ pc = "headers" => \A k \in 1..Len(origin) : origin[k][1] # page
    /\ (pc \in {"students", "error"} \/ (pc = "pages" /\ page > 0)) =>
          /\ current_class = ClassOfPage(lines, carried.ctx, settings.allowed_courses)
          /\ \A k \in 1..Len(origin) : origin[k][1] = page =>
                 /\ NonEmpty(current_class)
                 /\ records[k]["CRN"] = current_class["CRN"]
                 /\ records[k]["Class"] =
                        current_class["Subject"] \o " " \o current_class["Course Number"]

\* A record whose row stands before the only header line of its page, and
\* carries that header's crn though another class was carried in.
C3_Witness ==
    \E k \in 1..Len(origin) :
        /\ origin[k][1] = page
        /\ HeaderLines(lines) # {}
        /\ \A i \in HeaderLines(lines) : i > origin[k][2] + 1
        /\ records[k]["CRN"] = course_match(lines[Max(HeaderLines(lines))]).g1
        /\ NonEmpty(carried.ctx)
        /\ carried.ctx["CRN"] # records[k]["CRN"]

\* C4: a G-number line under an active class gives exactly one record and moves
\* the cursor by 2, whatever follows it.
C4_RecordAndSkipTwo ==
    [][(AtGnumLine /\ NonEmpty(current_class)) =>
          (Appended /\ idx' = idx + 2)]_vars

\* C5: a G-number line with no active class gives no record, moves the cursor
\* by 1 and leaves records and class as they are.
C5_NoClassSkipsOne ==
    [][(AtGnumLine /\ ~NonEmpty(current_class)) =>
          (records' = records /\ idx' = idx + 1 /\ current_class' = current_class)]_vars

\* The line just passed holds a G-number and there is no class.
C5_Witness ==
    /\ pc \in {"students", "pages"}
    /\ idx >= 1 /\ idx <= Len(lines)
    /\ gnum_match(lines[idx]).matched
    /\ ~NonEmpty(current_class)
    /\ ~course_match(lines[idx]).matched

\* C6: opening the next page leaves the class as the previous page left it; on
\* a page without header line the class stays the one carried in, its rows are
\* tagged with it, or dropped when it is empty.
C6_ClassCarriedAcrossPages ==
    [][/\ page' # page => current_class' = current_class
       /\ (page' = page /\ HeaderLines(lines) = {}) =>
             /\ current_class' = current_class
             /\ current_class = carried.ctx
             /\ records' # records =>
                   (NonEmpty(carried.ctx) /\ Last(records')["CRN"] = carried.ctx["CRN"])]_vars

\* A record made on a later page that has no header line, tagged with the
\* class of an earlier page.
C6_Witness ==
    /\ page >= 2
    /\ HeaderLines(lines) = {}
    /\ records # <<>>
    /\ Last(origin)[1] = page
    /\ NonEmpty(carried.ctx)
    /\ Last(records)["CRN"] = carried.ctx["CRN"]

\* <<p1, i1>> before <<p2, i2>>
Before(a, b) == a[1] < b[1] \/ (a[1] = b[1] /\ a[2] < b[2])

\* C7: records are only ever appended, and they stand in the order of the
\* (page, line index) of the rows they were made from; a record of the page at
\* hand holds the G-number of the row at its position.
C7_AppendOnlyInSourceOrder ==
    [][/\ records' = records \/ Appended
       /\ Len(origin') = Len(records')
       /\ \A j, k \in 1..Len(origin') : j < k => Before(origin'[j], origin'[k])
       /\ \A k \in 1..Len(origin') : origin'[k][1] = page' =>
             records'[k]["G Number"] = gnum_match(lines'[origin'[k][2] + 1]).g1]_vars

\* Two records made on two different pages.
C7_Witness ==
    /\ Len(records) >= 2
    /\ origin[1][1] # origin[2][1]

\* C8: taking a row never raises.
C8_NeverRaises == pc # "error"

\* The part of s after its leading token and the whitespace behind it ("" when
\* s has one token or none).
DropLeadingToken(s) ==
    LET a == SkipIn(s, 1, Space)
        b == SkipTo(s, a, Space)
    IN  SubSeq(s, SkipIn(s, b, Space), Len(s))

\* The first whitespace-delimited token of s ("" when it has none).
FirstToken(s) == IF Split(s) = <<>> THEN "" ELSE Split(s)[1]

\* Whether line i + 1 of ls exists.
HasNext(ls, i) == i + 1 < Len(ls)

\* C9 as stated: the email of a record is the first token of the line after its
\* row when that line holds the domain suffix, "" otherwise.
C9_EmailWhenLineHoldsSuffix ==
    [][records' # records =>
          Last(records')["PCC email address"] =
              IF HasNext(lines, idx) /\ Contains(lines[idx + 2], settings.email_domain)
              THEN FirstToken(lines[idx + 2])
              ELSE ""]_vars

\* C9, amended: ... when that line, surrounding whitespace removed, holds the
\* domain suffix.
C9_EmailWhenStrippedLineHoldsSuffix ==
    [][records' # records =>
          Last(records')["PCC email address"] =
              IF HasNext(lines, idx) /\ Contains(Strip(lines[idx + 2]), settings.email_domain)
              THEN FirstToken(lines[idx + 2])
              ELSE ""]_vars

\* A record whose email was taken off a line with whitespace around the token.
C9_Witness ==
    /\ Len(records) = 1
    /\ origin[1] = <<page, 0>>
    /\ Len(lines) = 2
    /\ lines[2] = "  jdoe@pcc.edu  extra text"
    /\ records[1]["PCC email address"] = "jdoe@pcc.edu"

\* The text before the G-number of the line.
NameRegion(line) == SubSeq(line, 1, gnum_match(line).start - 1)

Walked == pc \in {"done", "group", "grouped"}

\* A record, field by field.
Record(last, first, g_number, email, class, crn) ==
    [k \in {"First Name", "Last Name", "G Number", "PCC email address", "Non-PCC email",
            "Class", "CRN"} |->
        CASE k = "First Name"        -> first
          [] k = "Last Name"         -> last
          [] k = "G Number"          -> g_number
          [] k = "PCC email address" -> email
          [] k = "Non-PCC email"     -> ""
          [] k = "Class"             -> class
          [] k = "CRN"               -> crn]

Pair(rec) == <<rec["Class"], rec["CRN"]>>

\* The records of recs that have the label and CRN of rec, in the order of recs.
Alike(recs, rec) == SelectSeq(recs, LAMBDA r : Pair(r) = Pair(rec))

\* Position in recs of the first record that has the label and CRN of rec.
FirstOf(recs, rec) == Min({k \in 1..Len(recs) : Pair(recs[k]) = Pair(rec)})

\* C12: the groups partition the records read so far by (class label, CRN):
\* a group holds exactly the records of one label and CRN, in the order of the
\* record sequence; no two groups have the same label and CRN; every record is
\* in a group; and the groups stand in the order in which their label and CRN
\* first appear in the record sequence.
C12_GroupsPartitionRecords ==
    pc \in {"group", "grouped"} =>
        LET seen == SubSeq(records, 1, gpos)
        IN  /\ pc = "grouped" => gpos = Len(records)
            /\ \A i \in 1..Len(grouped) :
                   /\ grouped[i].recs # <<>>
                   /\ grouped[i].recs = Alike(seen, grouped[i].recs[1])
            /\ \A i, j \in 1..Len(grouped) :
                   i < j => /\ Pair(grouped[i].recs[1]) # Pair(grouped[j].recs[1])
                            /\ FirstOf(seen, grouped[i].recs[1]) < FirstOf(seen, grouped[j].recs[1])
            /\ \A k \in 1..Len(seen) :
                   \E i \in 1..Len(grouped) : Pair(grouped[i].recs[1]) = Pair(seen[k])

\* Three records, the second of another class than the first and the third:
\* two groups, the first of two records.
C12_Witness ==
    /\ pc = "grouped"
    /\ Len(records) = 3
    /\ Pair(records[1]) = Pair(records[3])
    /\ records[1] # records[3]
    /\ records[1]["Class"] = records[2]["Class"]
    /\ records[1]["CRN"] # records[2]["CRN"]
    /\ Len(grouped) = 2
    /\ grouped[1].recs = <<records[1], records[3]>>

\* The term was detected and no page was read since.
TermDetected == pc = "pages" /\ page = 0

\* s[i..j] is delimited: no letter, digit or underscore touches it.
Delimited(s, i, j) ==
    /\ i = 1 \/ Ch(s, i - 1) \notin WordCh
    /\ j = Len(s) \/ Ch(s, j + 1) \notin WordCh

SeasonNames == {"spring", "summer", "fall", "winter"}

Capitalized(name) ==
    CASE name = "spring" -> "Spring"
      [] name = "summer" -> "Summer"
      [] name = "fall"   -> "Fall"
      [] name = "winter" -> "Winter"

\* The season+year phrases of s as <<position, season, position of the year>>:
\* a season name in any case, whitespace, four digits, the whole delimited;
\* when `banner`, the year begins with "20".
Phrases(s, banner) ==
    {ph \in (1..Len(s)) \X SeasonNames \X (1..Len(s)) :
        LET i == ph[1]
            a == ph[1] + Len(ph[2])
            b == ph[3]
        IN  /\ a <= b - 1
            /\ b + 3 <= Len(s)
            /\ LowerStr(SubSeq(s, i, a - 1)) = ph[2]
            /\ \A j \in a..(b - 1) : Ch(s, j) \in TextSpace
            /\ \A j \in b..(b + 3) : Ch(s, j) \in Digit
            /\ Delimited(s, i, b + 3)
            /\ banner => SubSeq(s, b, b + 1) = "20"}

\* The positions of the six-digit codes of s that begin with "20" and end with
\* a digit of the table, delimited; when `banner`, the fifth digit is 0.
Codes(s, banner) ==
    {i \in 1..Len(s) :
        /\ i + 5 <= Len(s)
        /\ \A j \in i..(i + 5) : Ch(s, j) \in Digit
        /\ Delimited(s, i, i + 5)
        /\ SubSeq(s, i, i + 1) = "20"
        /\ Ch(s, i + 5) \in {"1", "2", "3", "4"}
        /\ banner => Ch(s, i + 4) = "0"}

SeasonOfDigit(d) ==
    CASE d = "1" -> "Winter"
      [] d = "2" -> "Spring"
      [] d = "3" -> "Summer"
      [] d = "4" -> "Fall"

\* The term the first phrase of s names, or else the first code, or else "".
TermOf(s, banner) ==
    LET phs == Phrases(s, banner)
        cs  == Codes(s, banner)
    IN  IF phs # {}
        THEN LET ph == CHOOSE ph \in phs : \A o \in phs : ph[1] <= o[1]
             IN  Capitalized(ph[2]) \o " " \o SubSeq(s, ph[3], ph[3] + 3)
        ELSE IF cs # {}
        THEN SeasonOfDigit(Ch(s, Min(cs) + 5)) \o " " \o SubSeq(s, Min(cs), Min(cs) + 3)
        ELSE ""

\* C13 as stated: the term is "<Season> <Year>" for the first season+4-digit-year
\* phrase of the first page; else "<Season> <first four digits>" for the first
\* 6-digit code that begins with "20", the season by its last digit; else "".
C13_TermFromPhraseOrCode ==
    TermDetected => term_text = TermOf(JoinLines(first_page), FALSE)

\* C13, amended: the same, for phrases whose year begins with "20" and codes
\* whose fifth digit is 0 (20YY01 to 20YY04).
C13_TermFromPhraseOrBannerCode ==
    TermDetected => term_text = TermOf(JoinLines(first_page), TRUE)

\* A page that holds a code and, after it, a phrase: the phrase wins.
C13_Witness ==
    /\ TermDetected
    /\ first_page = <<"Term: 202503", "Fall 2025">>
    /\ term_text = "Fall 2025"

\* The records of recs made on page pg or later, given where each was made.
MadeSince(recs, org, pg) ==
    SubSeq(recs, Cardinality({k \in 1..Len(org) : org[k][1] < pg}) + 1, Len(recs))

\* The records the rows of ls give from cursor i on under the class cc, as a
\* function of the page, the class and the email domain suffix alone.
RECURSIVE RowsFrom(_, _, _, _)
RowsFrom(ls, i, cc, domain) ==
    IF i >= Len(ls) THEN <<>>
    ELSE IF gnum_match(ls[i + 1]).matched /\ NonEmpty(cc)
         THEN <<MakeRecord(ParseName(ls[i + 1], gnum_match(ls[i + 1])),
                           gnum_match(ls[i + 1]).g1, EmailLookup(ls, i, domain).email, cc)>>
                  \o RowsFrom(ls, i + 2, cc, domain)
         ELSE RowsFrom(ls, i + 1, cc, domain)

Named == pc \in {"group", "grouped"}

Extension == ".xlsx"

\* C15: the stem of the output name is the prefix, joined with the term only
\* when the term is not empty; in the name every character of the stem outside
\* [A-Za-z0-9 _-] is removed and nothing else is, word by word, and no two
\* spaces follow each other; "GEO_Class_Lists_Fall 2025!!" becomes
\* "GEO_Class_Lists_Fall 2025".
C15_StemSanitized ==
    Named =>
        LET prefix == settings.output_name_prefix
            stem   == IF term_text = "" THEN prefix ELSE prefix \o "_" \o term_text
            n      == Len(out_name) - Len(Extension)
            name   == SubSeq(out_name, 1, n)
        IN  /\ n >= 0
            /\ SubSeq(out_name, n + 1, Len(out_name)) = Extension
            /\ \A j \in 1..n : Ch(name, j) \in NameCh
            /\ \A j \in 1..(n - 1) : ~(Ch(name, j) = " " /\ Ch(name, j + 1) = " ")
            /\ Split(name) = Split(Keep(stem, NameCh))
            /\ stem = "GEO_Class_Lists_Fall 2025!!" => name = "GEO_Class_Lists_Fall 2025"

\* The example of the claim.
C15_Witness ==
    /\ Named
    /\ settings.output_name_prefix = "GEO_Class_Lists_Fall 2025!!"
    /\ term_text = ""
    /\ out_name = "GEO_Class_Lists_Fall 2025.xlsx"

\* C16: a line is of one category at most: no line of a page is both applied
\* as a header line by the header loop and made into a record by the student
\* loop.
C16_HeaderLineGivesNoRecord ==
    \A k \in 1..Len(origin) :
        origin[k][1] = page => ~course_match(lines[origin[k][2] + 1]).matched

\* The indices (0-based) of the lines of the page at hand that gave a record.
Recorded == {origin[k][2] : k \in {j \in 1..Len(origin) : origin[j][1] = page}}

\* C17: the line after a line that gave a record is skipped by the student
\* loop: the cursor never stands on it and it gives no record, so no two
\* consecutive lines of a page give records; yet it is applied as a header:
\* when it is the last header line of the page, the record before it carries
\* its CRN.
C17_LineAfterRecordSkipped ==
    \A i \in Recorded :
        /\ pc = "students" => idx # i + 1
        /\ (i + 1) \notin Recorded
        /\ \A k \in 1..Len(origin) :
               (origin[k] = <<page, i>> /\ HeaderLines(lines) # {}
                   /\ Max(HeaderLines(lines)) = i + 2)
               => records[k]["CRN"] = course_match(lines[i + 2]).g1

\* A page is walked whose first line gave a record and whose second line
\* holds a G-number and is the header that set the class: one record, of the
\* class of the second line.
C17_Witness ==
    /\ pc = "pages"
    /\ Len(lines) = 2
    /\ Recorded = {0}
    /\ gnum_match(lines[2]).matched
    /\ HeaderLines(lines) = {2}
    /\ NonEmpty(current_class)
    /\ Last(records)["CRN"] = course_match(lines[2]).g1

\* C18: no step of the student loop changes the class, and after every step
\* any two records made on the same page have the same Class and the same CRN.
C18_OneClassPerPage ==
    [][/\ pc = "students" => current_class' = current_class
       /\ \A j, k \in 1..Len(origin') :
              origin'[j][1] = origin'[k][1] =>
                  /\ records'[j]["Class"] = records'[k]["Class"]
                  /\ records'[j]["CRN"] = records'[k]["CRN"]]_vars

\* Two records of a page that has two header lines of different classes, the
\* first of them at or above the first recorded row.
C18_Witness ==
    /\ Cardinality(Recorded) = 2
    /\ \E a, b \in HeaderLines(lines) :
           /\ a < b
           /\ a <= Min(Recorded) + 1
           /\ course_match(lines[a]).g1 # course_match(lines[b]).g1
           /\ Last(records)["CRN"] = course_match(lines[b]).g1

\* How far main() is from its end, to be read in lexicographic order: the part
\* of main() it is in, then the lines of the document not yet read (the
\* records not yet grouped), then what is left of the loops over the page.
Rank ==
    <<CASE pc = "open" -> 3
        [] pc \in {"pages", "headers", "students"} -> 2
        [] pc \in {"done", "group"} -> 1
        [] OTHER -> 0,
      CASE pc \in {"pages", "headers", "students"} -> MaxDocLines - linesRead
        [] pc = "done" -> Len(records) + 1
        [] pc = "group" -> Len(records) - gpos
        [] OTHER -> 0,
      CASE pc = "headers" -> 2 * Len(lines) + 1 - h
        [] pc = "students" -> Len(lines) - idx
        [] OTHER -> 0>>

Below(r, q) ==
    \/ r[1] < q[1]
    \/ r[1] = q[1] /\ r[2] < q[2]
    \/ r[1] = q[1] /\ r[2] = q[2] /\ r[3] < q[3]

\* C19: the walk of a finite document terminates: every step brings main()
\* nearer to its end by a rank of three naturals, and a loop that is not over
\* has a line to take.  Every step of the student loop that does not raise
\* moves the cursor forward by 1 or 2 on the same page, so that a line is
\* looked at once at most; and a page of n lines gives at most ceil(n/2)
\* records.
C19_WalkTerminates ==
    [][/\ Below(Rank', Rank)
       /\ \A i \in 1..3 : Rank'[i] >= 0
       /\ pc' = "headers" => h' < Len(lines')
       /\ pc' = "students" => idx' < Len(lines')
       /\ (pc = "students" /\ pc' # "error") =>
              /\ idx' \in {idx + 1, idx + 2}
              /\ lines' = lines
              /\ page' = page
       /\ 2 * Cardinality({origin'[k][2] : k \in {j \in 1..Len(origin') : origin'[j][1] = page'}})
              <= Len(lines') + 1]_vars

\* main() is over on a page of three lines that gave two records.
C19_Witness ==
    /\ pc = "grouped"
    /\ Len(lines) = 3
    /\ Cardinality(Recorded) = 2

====
